---- MODULE Spec2Model ----
(***************************************************************************)
(* Blog backend (kangkyu/my-backend): the identity and access-control core *)
(* -- token service, identity middleware, ownership checks -- and the      *)
(* request handlers of the auth and posts routers, over a relational store *)
(* of users and posts.  A request is a sequence of steps, one per awaited  *)
(* store call; requests interleave between those steps.                    *)
(***************************************************************************)
EXTENDS Integers, Sequences, FiniteSets, TLC

\* ------------------------------------------------------------------ bounds
\* Clock values are 0..MaxClock, in days.
MaxClock == 8
\* Request slots: the number of requests in flight at once.
MaxReq == 2
\* Users and posts ever created (ids are never reused).
MaxUsers == 2
MaxPosts == 2

\* ------------------------------------------------------- program constants
\* jwt.sign(..., { expiresIn: '7d' }), in days.
ExpiresIn == 7

VARIABLES
    clock,        \* wall clock, in days
    jwtEnv,       \* process.env.JWT_SECRET ("" when absent)
    storeUnique,  \* whether the store enforces the unique index on users.email
    users,        \* user table: id -> [email, name, password]
    posts,        \* post table: id -> [title, content, published, authorId]
    nextUserId,   \* users created so far (ids are drawn in order)
    nextPostId,   \* posts created so far
    reqs,         \* request slot -> the request in flight there
    tok,          \* token service: the token string a client holds
    made,         \* token service: how that string was obtained
    out           \* token service: the last verifyToken call and its result

vars == <<clock, jwtEnv, storeUnique, users, posts, nextUserId, nextPostId,
          reqs, tok, made, out>>
storeVars == <<users, posts, nextUserId, nextPostId>>
tokenVars == <<tok, made, out>>

\* ------------------------------------------------------------------ values
\* Ids as the store generates them (cuid strings), in order of creation.
UserIdPool == [i \in 1..MaxUsers |-> IF i = 1 THEN "u1" ELSE IF i = 2 THEN "u2" ELSE IF i = 3 THEN "u3" ELSE "u4"]
PostIdPool == [i \in 1..MaxPosts |-> IF i = 1 THEN "p1" ELSE IF i = 2 THEN "p2" ELSE IF i = 3 THEN "p3" ELSE "p4"]
UserIds == {UserIdPool[i] : i \in 1..MaxUsers}
PostIds == {PostIdPool[i] : i \in 1..MaxPosts}

\* JavaScript undefined, where a user id is expected.
NoUserId == "undefined"

\* A string value.  A string in JWT form is kept by its parts (the payload's
\* claims and the signature); any other string by its text.
NoSig == [key |-> "", userId |-> "", iat |-> 0, exp |-> 0]
Str(s) == [fmt |-> "text", text |-> s, userId |-> "", iat |-> 0, exp |-> 0, sig |-> NoSig]
Undefined == [fmt |-> "undefined", text |-> "", userId |-> "", iat |-> 0, exp |-> 0, sig |-> NoSig]
Jwt(p, s) == [fmt |-> "jwt", text |-> "", userId |-> p.userId, iat |-> p.iat, exp |-> p.exp, sig |-> s]
Payload(t) == [userId |-> t.userId, iat |-> t.iat, exp |-> t.exp]

\* ----------------------------------------------------------- token service
\* The signing key: the configured one, else the fixed fallback.
JWT_SECRET == IF jwtEnv # "" THEN jwtEnv ELSE "your-secret-key"

\* HMAC-SHA256 of the encoded header and payload under `key`: a value that
\* determines, and is determined by, the key and the signed content.
HS256(p, key) == [key |-> key, userId |-> p.userId, iat |-> p.iat, exp |-> p.exp]

\* jwt.sign(payload, secret, { expiresIn }) at clock `now`.
JwtSign(userId, secret, now) ==
    LET p == [userId |-> userId, iat |-> now, exp |-> now + ExpiresIn]
    IN  Jwt(p, HS256(p, secret))

\* (mutant) jwt.verify with the expiry ignored.
JwtVerifyIgnoreExpiration(token, secret, now) ==
    IF token.fmt # "jwt" \/ token.sig # HS256(Payload(token), secret)
    THEN [kind |-> "throw", error |-> "JsonWebTokenError", userId |-> NoUserId]
    ELSE [kind |-> "payload", error |-> "", userId |-> token.userId]

\* jwt.verify(token, secret) at clock `now`: the payload, or the error thrown.
\* The signature is checked before the expiry.
JwtVerify(token, secret, now) ==
    IF token.fmt # "jwt"
    THEN [kind |-> "throw", error |-> "JsonWebTokenError", userId |-> NoUserId]
    ELSE IF token.sig # HS256(Payload(token), secret)
    THEN [kind |-> "throw", error |-> "JsonWebTokenError", userId |-> NoUserId]
    ELSE IF now >= token.exp
    THEN [kind |-> "throw", error |-> "TokenExpiredError", userId |-> NoUserId]
    ELSE [kind |-> "payload", error |-> "", userId |-> token.userId]

\* (mutant) generateToken signing a fixed subject instead of its argument.
generateTokenFixedSubject(userId, now) == JwtSign("u1", JWT_SECRET, now)

generateToken(userId, now) == JwtSign(userId, JWT_SECRET, now)

Null == [kind |-> "null", error |-> "", userId |-> NoUserId]

\* (mutant) verifyToken without the try/catch.
verifyTokenUncaught(token, now) == JwtVerify(token, JWT_SECRET, now)

\* try { return jwt.verify(...) } catch { return null }
verifyToken(token, now) ==
    LET r == JwtVerify(token, JWT_SECRET, now)
    IN  IF r.kind = "throw" THEN Null ELSE r

\* ------------------------------------------------------ identity middleware
\* A request's Authorization header: absent, or its value split at spaces.
NoHeader == [present |-> FALSE, parts |-> <<>>]
Header(parts) == [present |-> TRUE, parts |-> parts]
Bearer(t) == Header(<<Str("Bearer"), t>>)

\* const token = authHeader && authHeader.split(' ')[1]
HeaderToken(h) ==
    IF ~h.present THEN Undefined
    ELSE IF h.parts = <<Str("")>> THEN Str("")
    ELSE IF Len(h.parts) >= 2 THEN h.parts[2]
    ELSE Undefined

\* !token
Falsy(t) == t.fmt = "undefined" \/ t = Str("")

\* (mutant) authenticateToken looking the token's user up in the store.
authenticateTokenRevalidating(h, now) ==
    LET token == HeaderToken(h)
        payload == verifyToken(token, now)
    IN  IF Falsy(token)
        THEN [status |-> 401, error |-> "Access token required", next |-> 0, userId |-> NoUserId]
        ELSE IF payload.kind # "payload" \/ ~users[payload.userId].live
        THEN [status |-> 403, error |-> "Invalid or expired token", next |-> 0, userId |-> NoUserId]
        ELSE [status |-> 0, error |-> "", next |-> 1, userId |-> payload.userId]

\* (mutant) authenticateToken letting a request without a token through.
authenticateTokenLenient(h, now) ==
    LET token == HeaderToken(h)
        payload == verifyToken(token, now)
    IN  IF Falsy(token)
        THEN [status |-> 0, error |-> "", next |-> 1, userId |-> NoUserId]
        ELSE IF payload.kind # "payload"
        THEN [status |-> 403, error |-> "Invalid or expired token", next |-> 0, userId |-> NoUserId]
        ELSE [status |-> 0, error |-> "", next |-> 1, userId |-> payload.userId]

\* What a middleware did: the response it sent (status 0: none), how often it
\* called next(), and the userId it attached.  (An exception escaping a
\* middleware would be answered 500 by the framework.)
authenticateToken(h, now) ==
    LET token == HeaderToken(h)
        payload == verifyToken(token, now)
    IN  IF Falsy(token)
        THEN [status |-> 401, error |-> "Access token required", next |-> 0, userId |-> NoUserId]
        ELSE IF payload.kind = "throw"
        THEN [status |-> 500, error |-> "Internal Server Error", next |-> 0, userId |-> NoUserId]
        ELSE IF payload.kind = "null"
        THEN [status |-> 403, error |-> "Invalid or expired token", next |-> 0, userId |-> NoUserId]
        ELSE [status |-> 0, error |-> "", next |-> 1, userId |-> payload.userId]

\* (mutant) optionalAuth rejecting a token that does not verify.
optionalAuthStrict(h, now) ==
    LET token == HeaderToken(h)
        payload == verifyToken(token, now)
    IN  IF ~Falsy(token) /\ payload.kind # "payload"
        THEN [status |-> 403, error |-> "Invalid or expired token", next |-> 0, userId |-> NoUserId]
        ELSE IF ~Falsy(token)
        THEN [status |-> 0, error |-> "", next |-> 1, userId |-> payload.userId]
        ELSE [status |-> 0, error |-> "", next |-> 1, userId |-> NoUserId]

optionalAuth(h, now) ==
    LET token == HeaderToken(h)
        payload == verifyToken(token, now)
    IN  IF ~Falsy(token) /\ payload.kind = "throw"
        THEN [status |-> 500, error |-> "Internal Server Error", next |-> 0, userId |-> NoUserId]
        ELSE IF ~Falsy(token) /\ payload.kind = "payload"
        THEN [status |-> 0, error |-> "", next |-> 1, userId |-> payload.userId]
        ELSE [status |-> 0, error |-> "", next |-> 1, userId |-> NoUserId]

\* ----------------------------------------------------------------- strings
U == "undefined"

\* (mutant) a lowercasing that leaves every letter as it is.
toLowerCaseKeepingCase(s) == s

\* String.prototype.toLowerCase
toLowerCase(s) ==
    CASE s = "A@x.com" -> "a@x.com"
      [] s = "B@X.COM" -> "b@x.com"
      [] OTHER -> s

\* String.prototype.trim
trim(s) ==
    CASE s = " t1 " -> "t1"
      [] s = " Ann " -> "Ann"
      [] s = " " -> ""
      [] OTHER -> s

\* Joi.string().email({ tlds: { allow: false } })
IsEmail(s) == s \in {"a@x.com", "A@x.com", "b@x.com", "B@X.COM"}

\* Joi.boolean(): a JSON boolean, or the strings "true" and "false" converted.
IsBoolean(s) == s \in {"true", "false"}
ToBool(s) == s = "true"

\* --------------------------------------------------------------- validation
\* A request body: its fields, U where the field is absent.
NoBody == [email |-> U, name |-> U, password |-> U, title |-> U, content |-> U, published |-> U]

\* Joi.string().min(lo).max(hi): a non-empty string within the limits.
StringOk(s, lo, hi) == s # U /\ s # "" /\ Len(s) >= lo /\ Len(s) <= hi

\* validateUserSignup: email, name (1..100), password (6..100), all required.
validateUserSignup(b) ==
    [error |-> ~(IsEmail(b.email) /\ StringOk(b.name, 1, 100) /\ StringOk(b.password, 6, 100)),
     value |-> [NoBody EXCEPT !.email = b.email, !.name = b.name, !.password = b.password]]

\* validateUserLogin: email and password required.
validateUserLogin(b) ==
    [error |-> ~(IsEmail(b.email) /\ b.password # U /\ b.password # ""),
     value |-> [NoBody EXCEPT !.email = b.email, !.password = b.password]]

\* validateUserUpdate: email and name (1..100) optional.
validateUserUpdate(b) ==
    [error |-> ~((b.email = U \/ IsEmail(b.email)) /\ (b.name = U \/ StringOk(b.name, 1, 100))),
     value |-> [NoBody EXCEPT !.email = b.email, !.name = b.name]]

\* validatePostCreate: title (1..200) and content (1..10000) required,
\* published a boolean defaulting to false.
validatePostCreate(b) ==
    [error |-> ~(StringOk(b.title, 1, 200) /\ StringOk(b.content, 1, 10000)
                 /\ (b.published = U \/ IsBoolean(b.published))),
     value |-> [NoBody EXCEPT !.title = b.title, !.content = b.content,
                              !.published = IF b.published = U THEN "false" ELSE b.published]]

\* validatePostUpdate: title, content and published optional.
validatePostUpdate(b) ==
    [error |-> ~((b.title = U \/ StringOk(b.title, 1, 200))
                 /\ (b.content = U \/ StringOk(b.content, 1, 10000))
                 /\ (b.published = U \/ IsBoolean(b.published))),
     value |-> [NoBody EXCEPT !.title = b.title, !.content = b.content, !.published = b.published]]

\* -------------------------------------------------------------------- store
\* bcrypt: the verifier holds the salt and the digest of salt and password.
NoVerifier == [salt |-> 0, digest |-> <<0, "">>]
\* bcrypt reads the first 72 bytes of the password and ignores the rest.
Long1 == "xxxxxxxxxxxxxxxxxxxxxxxxxxxxxxxxxxxxxxxxxxxxxxxxxxxxxxxxxxxxxxxxxxxxxxxx1"
Long2 == "xxxxxxxxxxxxxxxxxxxxxxxxxxxxxxxxxxxxxxxxxxxxxxxxxxxxxxxxxxxxxxxxxxxxxxxx2"
Bcrypt72(password) == IF password \in {Long1, Long2} THEN "xxxxxxxxxxxxxxxxxxxxxxxxxxxxxxxxxxxxxxxxxxxxxxxxxxxxxxxxxxxxxxxxxxxxxxxx" ELSE password
BcryptHash(password, salt) == [salt |-> salt, digest |-> <<salt, Bcrypt72(password)>>]
BcryptCompare(password, v) == BcryptHash(password, v.salt) = v

\* Rows of the two tables; a row that is not live does not exist.
NoUserRow == [live |-> FALSE, email |-> "", name |-> "", password |-> NoVerifier]
NoPostRow == [live |-> FALSE, title |-> "", content |-> "", published |-> FALSE, authorId |-> ""]
UserRow(email, name, password) == [live |-> TRUE, email |-> email, name |-> name, password |-> password]
PostRow(title, content, published, authorId) ==
    [live |-> TRUE, title |-> title, content |-> content, published |-> published, authorId |-> authorId]

LiveUsers == {u \in UserIds : users[u].live}
LivePosts == {p \in PostIds : posts[p].live}

\* prisma.user.findUnique({ where: { email } }): the rows with that email.
UsersByEmail(email) == {u \in LiveUsers : users[u].email = email}

\* What a response carries of a user (select: id, email, name) and of a post
\* (the row, include: author { id, name, email }).
NoUser == [id |-> "", email |-> "", name |-> "", password |-> NoVerifier]
UserView(u) == [id |-> u, email |-> users[u].email, name |-> users[u].name, password |-> NoVerifier]
NoPost == [id |-> "", title |-> "", content |-> "", published |-> FALSE, authorId |-> "", author |-> NoUser]
RowView(p, row) ==
    [id |-> p, title |-> row.title, content |-> row.content,
     published |-> row.published, authorId |-> row.authorId,
     author |-> IF row.authorId \in LiveUsers THEN UserView(row.authorId) ELSE NoUser]
PostView(p) == RowView(p, posts[p])

\* ----------------------------------------------------------------- requests
NoData ==
    [post |-> NoPost, posts |-> {}, total |-> 0, user |-> NoUser, users |-> {}, token |-> Undefined]

\* A request: the route (op), the next awaited store call (pc; "done" once
\* the response is sent), the Authorization header, the userId the middleware
\* attached, the calls of next(), the path parameter, the body, the response
\* (status 0: none yet), the store calls made so far and the count that
\* post.deleteMany returned to it.
Idle ==
    [op |-> "idle", pc |-> "done", hdr |-> NoHeader, userId |-> NoUserId, next |-> 0,
     id |-> "", body |-> NoBody, status |-> 0, error |-> "", data |-> NoData,
     reads |-> 0, writes |-> 0, count |-> 0]

Slots == 1..MaxReq

\* res.status(status).json({ error }) / res.status(status).json(data)
Fail(r, status, error) == [r EXCEPT !.pc = "done", !.status = status, !.error = error]
Reply(r, status, data) == [r EXCEPT !.pc = "done", !.status = status, !.data = data]
Read(r) == [r EXCEPT !.reads = @ + 1]
Write(r) == [r EXCEPT !.writes = @ + 1]

\* The middleware each route is registered with.
Guard(op) ==
    CASE op \in {"getProfile", "putProfile", "deleteProfile", "myPosts",
                 "createPost", "putPost", "deletePost"} -> "authenticateToken"
      [] op \in {"listPosts", "getPost"} -> "optionalAuth"
      [] OTHER -> "none"

RunGuard(op, h, now) ==
    CASE Guard(op) = "authenticateToken" -> authenticateToken(h, now)
      [] Guard(op) = "optionalAuth" -> optionalAuth(h, now)
      [] OTHER -> [status |-> 0, error |-> "", next |-> 1, userId |-> NoUserId]

\* The handler up to its first awaited store call: the body validation of the
\* routes that validate first, then the first store call.
Enter(r) ==
    CASE r.op = "signup" ->
            IF validateUserSignup(r.body).error THEN Fail(r, 400, "Validation failed")
            ELSE [r EXCEPT !.pc = "findUnique"]
      [] r.op = "login" ->
            IF validateUserLogin(r.body).error THEN Fail(r, 400, "Validation failed")
            ELSE [r EXCEPT !.pc = "findUnique"]
      [] r.op = "putProfile" ->
            IF validateUserUpdate(r.body).error THEN Fail(r, 400, "Validation failed")
            ELSE IF validateUserUpdate(r.body).value.email # U THEN [r EXCEPT !.pc = "findUnique"]
            ELSE [r EXCEPT !.pc = "update"]
      [] r.op = "deleteProfile" -> [r EXCEPT !.pc = "deleteMany"]
      [] r.op = "createPost" ->
            IF validatePostCreate(r.body).error THEN Fail(r, 400, "Validation failed")
            ELSE [r EXCEPT !.pc = "create"]
      [] r.op = "postUsers" ->
            IF validateUserSignup(r.body).error THEN Fail(r, 400, "Validation failed")
            ELSE [r EXCEPT !.pc = "findUnique"]
      [] r.op \in {"listPosts", "myPosts", "getUsers"} -> [r EXCEPT !.pc = "findMany"]
      [] OTHER -> [r EXCEPT !.pc = "findUnique"]

\* (mutant) a middleware that keeps the identity in one process-wide place:
\* every request in flight sees the identity resolved last.
ReceiveShared(s, op, h, id, body) ==
    /\ reqs[s] = Idle
    /\ LET mw == RunGuard(op, h, clock)
           r == [Idle EXCEPT !.op = op, !.hdr = h, !.id = id, !.body = body,
                             !.userId = mw.userId, !.next = mw.next]
       IN  reqs' = [t \in Slots |->
                        IF t = s THEN (IF mw.next = 0 THEN Fail(r, mw.status, mw.error) ELSE Enter(r))
                        ELSE IF reqs[t] = Idle THEN Idle
                        ELSE [reqs[t] EXCEPT !.userId = mw.userId]]
    /\ UNCHANGED <<clock, jwtEnv, storeUnique, storeVars, tokenVars>>

\* A request arrives in a free slot: its route's middleware runs, then, if the
\* middleware called next(), the handler up to its first store call.
Receive(s, op, h, id, body) ==
    /\ reqs[s] = Idle
    /\ LET mw == RunGuard(op, h, clock)
           r == [Idle EXCEPT !.op = op, !.hdr = h, !.id = id, !.body = body,
                             !.userId = mw.userId, !.next = mw.next]
       IN  reqs' = [reqs EXCEPT ![s] =
                        IF mw.next = 0 THEN Fail(r, mw.status, mw.error) ELSE Enter(r)]
    /\ UNCHANGED <<clock, jwtEnv, storeUnique, storeVars, tokenVars>>

\* The client has read the response: the slot is free again.
Retire(s) ==
    /\ reqs[s].op # "idle" /\ reqs[s].pc = "done"
    /\ reqs' = [reqs EXCEPT ![s] = Idle]
    /\ UNCHANGED <<clock, jwtEnv, storeUnique, storeVars, tokenVars>>

Running(s, op, pc) == reqs[s].op = op /\ reqs[s].pc = pc

\* ------------------------------------------------------------- posts router
others == <<clock, jwtEnv, storeUnique, tokenVars>>

\* (mutant) the visibility check without the author's exemption.
ViewDeniedToAuthorToo(post, userId) == ~post.published

\* (mutant) the visibility check applied to authenticated requesters only.
ViewDeniedIfKnown(post, userId) == ~post.published /\ userId # NoUserId /\ post.authorId # userId

\* (mutant) the ownership check reduced to "is authenticated".
NotOwnerUnchecked(existingPost, userId) == userId = NoUserId

\* GET /posts/:id -- the visibility check on the post found.
ViewDenied(post, userId) == ~post.published /\ post.authorId # userId

\* PUT and DELETE /posts/:id -- the ownership check on the post found.
NotOwner(existingPost, userId) == existingPost.authorId # userId

\* GET /posts/:id: findUnique, then 404, 403 or the post.
GetPostFind(s) ==
    /\ Running(s, "getPost", "findUnique")
    /\ LET r == Read(reqs[s])
       IN  reqs' = [reqs EXCEPT ![s] =
                IF r.id \notin LivePosts THEN Fail(r, 404, "Post not found")
                ELSE IF ViewDenied(posts[r.id], r.userId) THEN Fail(r, 403, "Access denied")
                ELSE Reply(r, 200, [NoData EXCEPT !.post = PostView(r.id)])]
    /\ UNCHANGED <<storeVars, others>>

\* (mutant) a where clause that also admits the requester's own drafts.
ListWhereWithOwnDrafts(r) ==
    {p \in LivePosts : (posts[p].published \/ posts[p].authorId = r.userId)
                            /\ (r.id = "" \/ posts[p].authorId = r.id)}

\* GET /posts: findMany over the published posts (of one author when the
\* query names one; the query's authorId travels in r.id), then count.
ListWhere(r) ==
    {p \in LivePosts : posts[p].published /\ (r.id = "" \/ posts[p].authorId = r.id)}

ListPostsFind(s) ==
    /\ Running(s, "listPosts", "findMany")
    /\ LET r == Read(reqs[s])
       IN  reqs' = [reqs EXCEPT ![s] =
                [r EXCEPT !.pc = "count", !.data = [NoData EXCEPT !.posts = {PostView(p) : p \in ListWhere(r)}]]]
    /\ UNCHANGED <<storeVars, others>>

ListPostsCount(s) ==
    /\ Running(s, "listPosts", "count")
    /\ LET r == Read(reqs[s])
       IN  reqs' = [reqs EXCEPT ![s] = Reply(r, 200, [r.data EXCEPT !.total = Cardinality(ListWhere(r))])]
    /\ UNCHANGED <<storeVars, others>>

\* GET /posts/my-posts: findMany over the requester's posts, then count.
MineWhere(r) == {p \in LivePosts : posts[p].authorId = r.userId}

MyPostsFind(s) ==
    /\ Running(s, "myPosts", "findMany")
    /\ LET r == Read(reqs[s])
       IN  reqs' = [reqs EXCEPT ![s] =
                [r EXCEPT !.pc = "count", !.data = [NoData EXCEPT !.posts = {PostView(p) : p \in MineWhere(r)}]]]
    /\ UNCHANGED <<storeVars, others>>

MyPostsCount(s) ==
    /\ Running(s, "myPosts", "count")
    /\ LET r == Read(reqs[s])
       IN  reqs' = [reqs EXCEPT ![s] = Reply(r, 200, [r.data EXCEPT !.total = Cardinality(MineWhere(r))])]
    /\ UNCHANGED <<storeVars, others>>

\* POST /posts: create.  The store rejects a row whose authorId is no user
\* (the foreign key); the handler answers 500 then.
CreatePostCreate(s) ==
    /\ Running(s, "createPost", "create")
    /\ nextPostId < MaxPosts
    /\ LET r == Write(reqs[s])
           v == validatePostCreate(r.body).value
           id == PostIdPool[nextPostId + 1]
           row == PostRow(trim(v.title), trim(v.content), ToBool(v.published), r.userId)
       IN  IF r.userId \notin LiveUsers
           THEN /\ reqs' = [reqs EXCEPT ![s] = Fail(r, 500, "Failed to create post")]
                /\ UNCHANGED storeVars
           ELSE /\ posts' = [posts EXCEPT ![id] = row]
                /\ nextPostId' = nextPostId + 1
                /\ reqs' = [reqs EXCEPT ![s] = Reply(r, 201, [NoData EXCEPT !.post = RowView(id, row)])]
                /\ UNCHANGED <<users, nextUserId>>
    /\ UNCHANGED others

\* (mutant) a PUT handler that validates the body before it looks at the post.
PutPostFindValidatingFirst(s) ==
    /\ Running(s, "putPost", "findUnique")
    /\ LET r == Read(reqs[s])
       IN  reqs' = [reqs EXCEPT ![s] =
                IF validatePostUpdate(r.body).error THEN Fail(r, 400, "Validation failed")
                ELSE IF r.id \notin LivePosts THEN Fail(r, 404, "Post not found")
                ELSE IF NotOwner(posts[r.id], r.userId) THEN Fail(r, 403, "Access denied")
                ELSE [r EXCEPT !.pc = "update"]]
    /\ UNCHANGED <<storeVars, others>>

\* PUT /posts/:id: findUnique, then 404, 403, 400 or on to the update.
PutPostFind(s) ==
    /\ Running(s, "putPost", "findUnique")
    /\ LET r == Read(reqs[s])
       IN  reqs' = [reqs EXCEPT ![s] =
                IF r.id \notin LivePosts THEN Fail(r, 404, "Post not found")
                ELSE IF NotOwner(posts[r.id], r.userId) THEN Fail(r, 403, "Access denied")
                ELSE IF validatePostUpdate(r.body).error THEN Fail(r, 400, "Validation failed")
                ELSE [r EXCEPT !.pc = "update"]]
    /\ UNCHANGED <<storeVars, others>>

\* (mutant) an update that defaults published to false as the create does.
UpdatedPostDefaultingPublished(row, value) ==
    [row EXCEPT !.title = IF value.title # U THEN trim(value.title) ELSE @,
                !.content = IF value.content # U THEN trim(value.content) ELSE @,
                !.published = IF value.published # U THEN ToBool(value.published) ELSE FALSE]

\* (mutant) an update that rebuilds the row from the body and drops the author.
UpdatedPostDroppingAuthor(row, value) ==
    [row EXCEPT !.title = IF value.title # U THEN trim(value.title) ELSE @,
                !.content = IF value.content # U THEN trim(value.content) ELSE @,
                !.published = IF value.published # U THEN ToBool(value.published) ELSE @,
                !.authorId = NoUserId]

\* updateData: the fields the body supplies.
UpdatedPost(row, value) ==
    [row EXCEPT !.title = IF value.title # U THEN trim(value.title) ELSE @,
                !.content = IF value.content # U THEN trim(value.content) ELSE @,
                !.published = IF value.published # U THEN ToBool(value.published) ELSE @]

\* prisma.post.update: it throws when the row is gone (answered 500).
PutPostUpdate(s) ==
    /\ Running(s, "putPost", "update")
    /\ LET r == Write(reqs[s])
           row == UpdatedPost(posts[r.id], validatePostUpdate(r.body).value)
       IN  IF r.id \notin LivePosts
           THEN /\ reqs' = [reqs EXCEPT ![s] = Fail(r, 500, "Failed to update post")]
                /\ UNCHANGED storeVars
           ELSE /\ posts' = [posts EXCEPT ![r.id] = row]
                /\ reqs' = [reqs EXCEPT ![s] = Reply(r, 200, [NoData EXCEPT !.post = RowView(r.id, row)])]
                /\ UNCHANGED <<users, nextUserId, nextPostId>>
    /\ UNCHANGED others

\* DELETE /posts/:id: findUnique, then 404, 403 or on to the delete.
DeletePostFind(s) ==
    /\ Running(s, "deletePost", "findUnique")
    /\ LET r == Read(reqs[s])
       IN  reqs' = [reqs EXCEPT ![s] =
                IF r.id \notin LivePosts THEN Fail(r, 404, "Post not found")
                ELSE IF NotOwner(posts[r.id], r.userId) THEN Fail(r, 403, "Access denied")
                ELSE [r EXCEPT !.pc = "delete"]]
    /\ UNCHANGED <<storeVars, others>>

\* prisma.post.delete: it throws when the row is gone (answered 500).
DeletePostDelete(s) ==
    /\ Running(s, "deletePost", "delete")
    /\ LET r == Write(reqs[s])
       IN  IF r.id \notin LivePosts
           THEN /\ reqs' = [reqs EXCEPT ![s] = Fail(r, 500, "Failed to delete post")]
                /\ UNCHANGED storeVars
           ELSE /\ posts' = [posts EXCEPT ![r.id] = NoPostRow]
                /\ reqs' = [reqs EXCEPT ![s] = Reply(r, 200, NoData)]
                /\ UNCHANGED <<users, nextUserId, nextPostId>>
    /\ UNCHANGED others

\* -------------------------------------------------------------- auth router
\* (mutant) a store that never rejects a duplicate email.
EmailTakenNever(email, self) == FALSE

\* prisma.user.create / update: with the unique index on email enforced, the
\* store rejects a row whose email another row holds.
EmailTaken(email, self) == storeUnique /\ UsersByEmail(email) \ {self} # {}

\* (mutant) signup looking the email up as given, not lowercased.
SignupFindCaseSensitive(s) ==
    /\ reqs[s].op = "signup" /\ reqs[s].pc = "findUnique"
    /\ LET r == [reqs[s] EXCEPT !.reads = @ + 1]
       IN  reqs' = [reqs EXCEPT ![s] =
                IF {u \in UserIds : users[u].live /\ users[u].email = r.body.email} # {}
                THEN [r EXCEPT !.pc = "done", !.status = 409, !.error = "User with this email already exists"]
                ELSE [r EXCEPT !.pc = "create"]]
    /\ UNCHANGED <<clock, jwtEnv, storeUnique, users, posts, nextUserId, nextPostId, tok, made, out>>

\* POST /auth/signup: findUnique by the lowercased email, then 409 or on to
\* the create.
SignupFind(s) ==
    /\ Running(s, "signup", "findUnique")
    /\ LET r == Read(reqs[s])
           v == validateUserSignup(r.body).value
       IN  reqs' = [reqs EXCEPT ![s] =
                IF UsersByEmail(toLowerCase(v.email)) # {}
                THEN Fail(r, 409, "User with this email already exists")
                ELSE [r EXCEPT !.pc = "create"]]
    /\ UNCHANGED <<storeVars, others>>

\* (mutant) a signup that answers 201 with a token for the existing row when
\* the create is rejected.
SignupCreateAnsweringExisting(s, salt) ==
    /\ Running(s, "signup", "create")
    /\ nextUserId < MaxUsers
    /\ LET r == Write(reqs[s])
           v == validateUserSignup(r.body).value
           id == UserIdPool[nextUserId + 1]
           email == trim(toLowerCase(v.email))
           row == UserRow(email, trim(v.name), BcryptHash(v.password, salt))
       IN  IF EmailTaken(email, id)
           THEN /\ \E w \in UsersByEmail(email) :
                    reqs' = [reqs EXCEPT ![s] = Reply(r, 201,
                        [NoData EXCEPT !.user = [id |-> w, email |-> row.email, name |-> row.name, password |-> NoVerifier],
                                       !.token = generateToken(w, clock)])]
                /\ UNCHANGED storeVars
           ELSE /\ users' = [users EXCEPT ![id] = row]
                /\ nextUserId' = nextUserId + 1
                /\ reqs' = [reqs EXCEPT ![s] = Reply(r, 201,
                        [NoData EXCEPT !.user = [id |-> id, email |-> row.email, name |-> row.name, password |-> NoVerifier],
                                       !.token = generateToken(id, clock)])]
                /\ UNCHANGED <<posts, nextPostId>>
    /\ UNCHANGED others

\* hashPassword (bcrypt draws the salt), then create and generateToken; a
\* rejected create is answered 500.
SignupCreate(s, salt) ==
    /\ Running(s, "signup", "create")
    /\ nextUserId < MaxUsers
    /\ LET r == Write(reqs[s])
           v == validateUserSignup(r.body).value
           id == UserIdPool[nextUserId + 1]
           email == trim(toLowerCase(v.email))
           row == UserRow(email, trim(v.name), BcryptHash(v.password, salt))
       IN  IF EmailTaken(email, id)
           THEN /\ reqs' = [reqs EXCEPT ![s] = Fail(r, 500, "Failed to create user")]
                /\ UNCHANGED storeVars
           ELSE /\ users' = [users EXCEPT ![id] = row]
                /\ nextUserId' = nextUserId + 1
                /\ reqs' = [reqs EXCEPT ![s] = Reply(r, 201,
                        [NoData EXCEPT !.user = [id |-> id, email |-> row.email, name |-> row.name, password |-> NoVerifier],
                                       !.token = generateToken(id, clock)])]
                /\ UNCHANGED <<posts, nextPostId>>
    /\ UNCHANGED others

\* (mutant) login telling an unknown email from a wrong password.
LoginFindLeaky(s) ==
    /\ reqs[s].op = "login" /\ reqs[s].pc = "findUnique"
    /\ LET r == [reqs[s] EXCEPT !.reads = @ + 1]
           v == validateUserLogin(r.body).value
           found == {u \in UserIds : users[u].live /\ users[u].email = toLowerCase(v.email)}
       IN  \/ /\ found = {}
              /\ reqs' = [reqs EXCEPT ![s] = [r EXCEPT !.pc = "done", !.status = 404, !.error = "User not found"]]
           \/ \E u \in found :
                reqs' = [reqs EXCEPT ![s] =
                    IF BcryptHash(v.password, users[u].password.salt) # users[u].password
                    THEN [r EXCEPT !.pc = "done", !.status = 401, !.error = "Invalid email or password"]
                    ELSE [r EXCEPT !.pc = "done", !.status = 200]]
    /\ UNCHANGED <<clock, jwtEnv, storeUnique, users, posts, nextUserId, nextPostId, tok, made, out>>

\* POST /auth/login: findUnique by the lowercased email, verifyPassword, then
\* 401 or the token; bcrypt.compare throws on a row that stores no password
\* (answered 500).
LoginFind(s) ==
    /\ Running(s, "login", "findUnique")
    /\ LET r == Read(reqs[s])
           v == validateUserLogin(r.body).value
           found == UsersByEmail(toLowerCase(v.email))
       IN  \/ /\ found = {}
              /\ reqs' = [reqs EXCEPT ![s] = Fail(r, 401, "Invalid email or password")]
           \/ \E u \in found :
                reqs' = [reqs EXCEPT ![s] =
                    IF users[u].password = NoVerifier THEN Fail(r, 500, "Failed to login")
                    ELSE IF ~BcryptCompare(v.password, users[u].password)
                    THEN Fail(r, 401, "Invalid email or password")
                    ELSE Reply(r, 200, [NoData EXCEPT !.user = UserView(u), !.token = generateToken(u, clock)])]
    /\ UNCHANGED <<storeVars, others>>

\* GET /auth/profile: findUnique by id, then 404 or the user with the count
\* of its posts.
GetProfileFind(s) ==
    /\ Running(s, "getProfile", "findUnique")
    /\ LET r == Read(reqs[s])
       IN  reqs' = [reqs EXCEPT ![s] =
                IF r.userId \notin LiveUsers THEN Fail(r, 404, "User not found")
                ELSE Reply(r, 200, [NoData EXCEPT !.user = UserView(r.userId),
                                                  !.total = Cardinality(MineWhere(r))])]
    /\ UNCHANGED <<storeVars, others>>

\* updateData.email = value.email.toLowerCase().trim()
UpdateEmail(value) == trim(toLowerCase(value.email))

\* (mutant) the email check without the exemption of the requester's own row.
PutProfileFindNoSelfExemption(s) ==
    /\ reqs[s].op = "putProfile" /\ reqs[s].pc = "findUnique"
    /\ LET r == [reqs[s] EXCEPT !.reads = @ + 1]
           email == trim(toLowerCase(r.body.email))
       IN  reqs' = [reqs EXCEPT ![s] =
                IF {u \in UserIds : users[u].live /\ users[u].email = email} # {}
                THEN [r EXCEPT !.pc = "done", !.status = 409, !.error = "Email already in use"]
                ELSE [r EXCEPT !.pc = "update"]]
    /\ UNCHANGED <<clock, jwtEnv, storeUnique, users, posts, nextUserId, nextPostId, tok, made, out>>

\* PUT /auth/profile with an email: findUnique by it, then 409 when another
\* user holds it, else on to the update.
PutProfileFind(s) ==
    /\ Running(s, "putProfile", "findUnique")
    /\ LET r == Read(reqs[s])
           found == UsersByEmail(UpdateEmail(validateUserUpdate(r.body).value))
       IN  \/ /\ found = {}
              /\ reqs' = [reqs EXCEPT ![s] = [r EXCEPT !.pc = "update"]]
           \/ \E existingUser \in found :
                reqs' = [reqs EXCEPT ![s] =
                    IF existingUser # r.userId THEN Fail(r, 409, "Email already in use")
                    ELSE [r EXCEPT !.pc = "update"]]
    /\ UNCHANGED <<storeVars, others>>

\* updateData: the fields the body supplies.
UpdatedUser(row, value) ==
    [row EXCEPT !.name = IF value.name # U THEN trim(value.name) ELSE @,
                !.email = IF value.email # U THEN UpdateEmail(value) ELSE @]

\* prisma.user.update: it throws when the row is gone or the email is held by
\* another row (answered 500).
PutProfileUpdate(s) ==
    /\ Running(s, "putProfile", "update")
    /\ LET r == Write(reqs[s])
           v == validateUserUpdate(r.body).value
           row == UpdatedUser(users[r.userId], v)
       IN  IF r.userId \notin LiveUsers \/ (v.email # U /\ EmailTaken(UpdateEmail(v), r.userId))
           THEN /\ reqs' = [reqs EXCEPT ![s] = Fail(r, 500, "Failed to update profile")]
                /\ UNCHANGED storeVars
           ELSE /\ users' = [users EXCEPT ![r.userId] = row]
                /\ reqs' = [reqs EXCEPT ![s] = Reply(r, 200,
                        [NoData EXCEPT !.user = [id |-> r.userId, email |-> row.email, name |-> row.name, password |-> NoVerifier]])]
                /\ UNCHANGED <<posts, nextUserId, nextPostId>>
    /\ UNCHANGED others

\* (mutant) deleteMany without the where clause.
DeleteProfileDeleteManyUnfiltered(s) ==
    /\ reqs[s].op = "deleteProfile" /\ reqs[s].pc = "deleteMany"
    /\ posts' = [p \in PostIds |-> NoPostRow]
    /\ reqs' = [reqs EXCEPT ![s] = [reqs[s] EXCEPT !.writes = @ + 1, !.pc = "delete"]]
    /\ UNCHANGED <<clock, jwtEnv, storeUnique, users, nextUserId, nextPostId, tok, made, out>>

\* DELETE /auth/profile: deleteMany over the requester's posts ...
DeleteProfileDeleteMany(s) ==
    /\ Running(s, "deleteProfile", "deleteMany")
    /\ LET r == Write(reqs[s])
       IN  /\ posts' = [p \in PostIds |-> IF posts[p].live /\ posts[p].authorId = r.userId THEN NoPostRow ELSE posts[p]]
           /\ reqs' = [reqs EXCEPT ![s] = [r EXCEPT !.pc = "delete", !.count = Cardinality(MineWhere(r))]]
    /\ UNCHANGED <<users, nextUserId, nextPostId, others>>

\* ... then delete of the user: it throws when the row is gone, or when a
\* post still refers to it (the foreign key); answered 500.
DeleteProfileDelete(s) ==
    /\ Running(s, "deleteProfile", "delete")
    /\ LET r == Write(reqs[s])
       IN  IF r.userId \notin LiveUsers \/ MineWhere(r) # {}
           THEN /\ reqs' = [reqs EXCEPT ![s] = Fail(r, 500, "Failed to delete user")]
                /\ UNCHANGED storeVars
           ELSE /\ users' = [users EXCEPT ![r.userId] = NoUserRow]
                /\ reqs' = [reqs EXCEPT ![s] = Reply(r, 200, NoData)]
                /\ UNCHANGED <<posts, nextUserId, nextPostId>>
    /\ UNCHANGED others

\* ------------------------------------------------- index.ts: /users routes
\* A row as prisma returns it without a select: every column, the password
\* column auth.ts writes among them, and include: { posts: true }.
FullUserView(u) ==
    [id |-> u, email |-> users[u].email, name |-> users[u].name, password |-> users[u].password,
     posts |-> {p \in LivePosts : posts[p].authorId = u}]

\* GET /users: findMany over all users, the rows sent as they are.
GetUsersFind(s) ==
    /\ Running(s, "getUsers", "findMany")
    /\ LET r == Read(reqs[s])
       IN  reqs' = [reqs EXCEPT ![s] =
                Reply(r, 200, [NoData EXCEPT !.users = {FullUserView(u) : u \in LiveUsers}])]
    /\ UNCHANGED <<storeVars, others>>

\* POST /users: findUnique by the lowercased email, then 409 or on to the
\* create.
PostUsersFind(s) ==
    /\ Running(s, "postUsers", "findUnique")
    /\ LET r == Read(reqs[s])
           v == validateUserSignup(r.body).value
       IN  reqs' = [reqs EXCEPT ![s] =
                IF UsersByEmail(toLowerCase(v.email)) # {}
                THEN Fail(r, 409, "User with this email already exists")
                ELSE [r EXCEPT !.pc = "create"]]
    /\ UNCHANGED <<storeVars, others>>

\* ... create with email and name only, the row sent as it is.  The store
\* rejects the row when the email is taken, and also when its password
\* column is mandatory (the schema decides; both outcomes are kept); a
\* rejected create is answered 500.
PostUsersCreate(s) ==
    /\ Running(s, "postUsers", "create")
    /\ nextUserId < MaxUsers
    /\ LET r == Write(reqs[s])
           v == validateUserSignup(r.body).value
           id == UserIdPool[nextUserId + 1]
           row == UserRow(trim(toLowerCase(v.email)), trim(v.name), NoVerifier)
       IN  \/ /\ reqs' = [reqs EXCEPT ![s] = Fail(r, 500, "Failed to create user")]
              /\ UNCHANGED storeVars
           \/ /\ ~EmailTaken(row.email, id)
              /\ users' = [users EXCEPT ![id] = row]
              /\ nextUserId' = nextUserId + 1
              /\ reqs' = [reqs EXCEPT ![s] = Reply(r, 201,
                      [NoData EXCEPT !.user = [id |-> id, email |-> row.email, name |-> row.name,
                                               password |-> row.password]])]
              /\ UNCHANGED <<posts, nextPostId>>
    /\ UNCHANGED others

\* ------------------------------------------------------------------- clock
Tick ==
    /\ clock < MaxClock
    /\ clock' = clock + 1
    /\ UNCHANGED <<jwtEnv, storeUnique, storeVars, reqs, tokenVars>>

\* ------------------------------------------- the token service, called alone
NotMade == [kind |-> "none", userId |-> NoUserId, at |-> 0]
NoCall == [called |-> FALSE, token |-> Undefined, made |-> NotMade, now |-> 0, result |-> Null]

\* A client obtains a token from generateToken ...
TokGenerate(u) ==
    /\ tok' = generateToken(u, clock)
    /\ made' = [kind |-> "generated", userId |-> u, at |-> clock]
    /\ out' = NoCall
    /\ UNCHANGED <<clock, jwtEnv, storeUnique, storeVars, reqs>>

\* ... changes one character of it: in the payload (another subject, a later
\* expiry) or in the signature ...
Tampered(t) ==
    {[t EXCEPT !.userId = u] : u \in UserIds \ {t.userId}}
        \cup {[t EXCEPT !.exp = t.exp + 1], [t EXCEPT !.sig = [t.sig EXCEPT !.key = "tampered"]]}

TokTamper ==
    /\ made.kind = "generated"
    /\ tok' \in Tampered(tok)
    /\ made' = [made EXCEPT !.kind = "tampered"]
    /\ out' = NoCall
    /\ UNCHANGED <<clock, jwtEnv, storeUnique, storeVars, reqs>>

\* ... signs one with a key of its own ...
TokForge(u) ==
    /\ tok' = JwtSign(u, "attacker-key", clock)
    /\ made' = [kind |-> "forged", userId |-> u, at |-> clock]
    /\ out' = NoCall
    /\ UNCHANGED <<clock, jwtEnv, storeUnique, storeVars, reqs>>

\* ... or makes up a string that is no JWT.
TokMalformed ==
    /\ tok' \in {Str("garbage"), Str(""), Undefined}
    /\ made' = [kind |-> "malformed", userId |-> NoUserId, at |-> clock]
    /\ out' = NoCall
    /\ UNCHANGED <<clock, jwtEnv, storeUnique, storeVars, reqs>>

\* verifyToken on the string held, at the current clock.  The call's outcome
\* is jwt.verify's payload, null, or an exception reaching the caller.
TokVerify ==
    /\ made.kind # "none"
    /\ out' = [called |-> TRUE, token |-> tok, made |-> made, now |-> clock,
               result |-> verifyToken(tok, clock)]
    /\ UNCHANGED <<clock, jwtEnv, storeUnique, storeVars, reqs, tok, made>>

\* ------------------------------------------------------------ initial states
EmptyStore ==
    /\ users = [u \in UserIds |-> NoUserRow]
    /\ posts = [p \in PostIds |-> NoPostRow]
    /\ nextUserId = 0
    /\ nextPostId = 0

NoTokenCalls == tok = Undefined /\ made = NotMade /\ out = NoCall

\* The token service alone, from clock 0, with JWT_SECRET set or absent.
InitToken ==
    /\ clock = 0
    /\ jwtEnv \in {"", "s3cret"}
    /\ storeUnique = TRUE
    /\ EmptyStore
    /\ reqs = [s \in Slots |-> Idle]
    /\ NoTokenCalls

NextToken ==
    \/ Tick
    \/ \E u \in UserIds : TokGenerate(u)
    \/ TokTamper
    \/ \E u \in UserIds : TokForge(u)
    \/ TokMalformed
    \/ TokVerify

SpecToken == InitToken /\ [][NextToken]_vars

\* ------------------------------------------------------------ client inputs
SignupBody(e, n, p) == [NoBody EXCEPT !.email = e, !.name = n, !.password = p]
LoginBody(e, p) == [NoBody EXCEPT !.email = e, !.password = p]
ProfileBody(e, n) == [NoBody EXCEPT !.email = e, !.name = n]
PostBody(t, c, p) == [NoBody EXCEPT !.title = t, !.content = c, !.published = p]
In(op, h, id, body) == [op |-> op, hdr |-> h, id |-> id, body |-> body]

\* The ids the store has handed out so far: a client holds tokens only of
\* users that were created.
Created == {UserIdPool[i] : i \in 1..nextUserId}

\* Authorization headers without a usable credential: none at all, a scheme
\* word with no token part ("Bearer", "Bearer "), a string that is no JWT, an
\* expired token (issued at clock 0), a token signed with another key.
NoTokenHeaders == {NoHeader, Header(<<Str("Bearer")>>), Header(<<Str("Bearer"), Str("")>>)}
InvalidTokenHeaders ==
    {Bearer(Str("garbage")), Bearer(generateToken("u1", 0)), Bearer(JwtSign("u1", "attacker-key", clock))}
BadHeaders == NoTokenHeaders \cup InvalidTokenHeaders

\* Bearer headers with a token issued to a created user and not yet expired.
GoodHeaders == {Bearer(generateToken(u, clock)) : u \in Created}

\* A request is accepted while the store can still draw an id for the row it
\* may create.
Pending(op, pc) == Cardinality({t \in Slots : Running(t, op, pc)})
Room(op) ==
    /\ op = "signup" => nextUserId + Pending("signup", "findUnique") + Pending("signup", "create") < MaxUsers
    /\ op = "postUsers" =>
            nextUserId + Pending("postUsers", "findUnique") + Pending("postUsers", "create") < MaxUsers
    /\ op = "createPost" => nextPostId + Pending("createPost", "create") < MaxPosts

Arrive(s, inputs) ==
    \E in \in inputs : Room(in.op) /\ Receive(s, in.op, in.hdr, in.id, in.body)

\* ---------------------------------------------------------- the whole server
\* Every route of the two routers, one request after another.
Inputs ==
    LET H == BadHeaders \cup GoodHeaders
    IN  {In("signup", NoHeader, "", SignupBody(e, " Ann ", "secret1")) : e \in {"a@x.com", "A@x.com", "b@x.com"}}
        \cup {In("signup", NoHeader, "", SignupBody("A@x.com", "Ann", "abc"))}
        \cup {In("login", NoHeader, "", LoginBody(e, pw)) : e \in {"A@x.com", "b@x.com"}, pw \in {"secret1", "secret2"}}
        \cup {In("getProfile", h, "", NoBody) : h \in H}
        \cup {In("putProfile", h, "", ProfileBody("B@X.COM", "Bob")) : h \in H}
        \cup {In("deleteProfile", h, "", NoBody) : h \in H}
        \cup {In("listPosts", h, "", NoBody) : h \in H}
        \cup {In("myPosts", h, "", NoBody) : h \in H}
        \cup {In("getPost", h, p, NoBody) : h \in H, p \in PostIds}
        \cup {In("createPost", h, "", PostBody(" t1 ", "c1", U)) : h \in H}
        \cup {In("putPost", h, p, b) : h \in H, p \in PostIds, b \in {PostBody(U, U, "true"), PostBody("", U, U)}}
        \cup {In("deletePost", h, p, NoBody) : h \in H, p \in PostIds}

Init ==
    /\ clock = MaxClock
    /\ jwtEnv = "s3cret"
    /\ storeUnique = TRUE
    /\ EmptyStore
    /\ reqs = [s \in Slots |-> Idle]
    /\ NoTokenCalls

Next ==
    \E s \in {1} :
        \/ Arrive(s, Inputs)
        \/ Retire(s)
        \/ SignupFind(s)
        \/ \E salt \in {1} : SignupCreate(s, salt)
        \/ LoginFind(s)
        \/ GetProfileFind(s)
        \/ PutProfileFind(s)
        \/ PutProfileUpdate(s)
        \/ DeleteProfileDeleteMany(s)
        \/ DeleteProfileDelete(s)
        \/ ListPostsFind(s)
        \/ ListPostsCount(s)
        \/ MyPostsFind(s)
        \/ MyPostsCount(s)
        \/ GetPostFind(s)
        \/ CreatePostCreate(s)
        \/ PutPostFind(s)
        \/ PutPostUpdate(s)
        \/ DeletePostFind(s)
        \/ DeletePostDelete(s)

Spec == Init /\ [][Next]_vars

\* ------------------------------------------- the posts router, concurrently
\* Two users have signed up; their requests to create, update and delete
\* posts interleave at the store calls, two requests in flight at a time.
TwoUsers ==
    /\ users = [u \in UserIds |->
                    IF u = "u1" THEN UserRow("a@x.com", "Ann", BcryptHash("secret1", 1))
                    ELSE IF u = "u2" THEN UserRow("b@x.com", "Bob", BcryptHash("secret2", 1))
                    ELSE NoUserRow]
    /\ nextUserId = 2

InitPosts ==
    /\ clock = MaxClock
    /\ jwtEnv = "s3cret"
    /\ storeUnique = TRUE
    /\ TwoUsers
    /\ posts = [p \in PostIds |-> NoPostRow]
    /\ nextPostId = 0
    /\ reqs = [s \in Slots |-> Idle]
    /\ NoTokenCalls

InputsPosts ==
    {In("createPost", h, "", PostBody("t1", "c1", U)) : h \in GoodHeaders}
        \cup {In("putPost", h, p, PostBody("t2", U, "true")) : h \in GoodHeaders, p \in PostIds}
        \cup {In("deletePost", h, p, NoBody) : h \in GoodHeaders, p \in PostIds}

NextPosts ==
    \E s \in {1, 2} :
        \/ Arrive(s, InputsPosts)
        \/ Retire(s)
        \/ CreatePostCreate(s)
        \/ PutPostFind(s)
        \/ PutPostUpdate(s)
        \/ DeletePostFind(s)
        \/ DeletePostDelete(s)

SpecPosts == InitPosts /\ [][NextPosts]_vars

\* ---------------------------------------------------- signups, concurrently
\* Signups interleave at the store calls, over a store that does or does not
\* enforce the unique index on users.email.
InitSignup ==
    /\ clock = MaxClock
    /\ jwtEnv = "s3cret"
    /\ storeUnique \in BOOLEAN
    /\ EmptyStore
    /\ reqs = [s \in Slots |-> Idle]
    /\ NoTokenCalls

InputsSignup ==
    {In("signup", NoHeader, "", SignupBody(e, "Ann", "secret1")) : e \in {"a@x.com", "A@x.com", "b@x.com"}}

NextSignup ==
    \E s \in Slots :
        \/ Arrive(s, InputsSignup)
        \/ Retire(s)
        \/ SignupFind(s)
        \/ \E salt \in {1, 2} : SignupCreate(s, salt)

SpecSignup == InitSignup /\ [][NextSignup]_vars

\* ------------------------------------------------------- the life of a post
\* Two users have signed up; they and anonymous clients create, update, read,
\* list and delete posts, one request after another, while time passes.
InputsPostLife ==
    LET H == {NoHeader} \cup GoodHeaders
    IN  {In("createPost", h, "", PostBody("t1", "c1", U)) : h \in GoodHeaders}
        \cup {In("putPost", h, p, b) : h \in GoodHeaders, p \in PostIds,
                    b \in {PostBody("t2", U, "true"), PostBody(U, U, "false"), PostBody(U, "c2", U)}}
        \cup {In("getPost", h, p, NoBody) : h \in H, p \in PostIds}
        \cup {In("listPosts", h, a, NoBody) : h \in H, a \in {"", "u1"}}
        \cup {In("deletePost", h, p, NoBody) : h \in GoodHeaders, p \in PostIds}

InitPostLife ==
    /\ clock = MaxClock - 1
    /\ jwtEnv = "s3cret"
    /\ storeUnique = TRUE
    /\ TwoUsers
    /\ posts = [p \in PostIds |-> NoPostRow]
    /\ nextPostId = 0
    /\ reqs = [s \in Slots |-> Idle]
    /\ NoTokenCalls

NextPostLife ==
    \/ Tick
    \/ \E s \in {1} :
        \/ Arrive(s, InputsPostLife)
        \/ Retire(s)
        \/ CreatePostCreate(s)
        \/ PutPostFind(s)
        \/ PutPostUpdate(s)
        \/ GetPostFind(s)
        \/ ListPostsFind(s)
        \/ ListPostsCount(s)
        \/ DeletePostFind(s)
        \/ DeletePostDelete(s)

SpecPostLife == InitPostLife /\ [][NextPostLife]_vars

\* ------------------------------------------- account deletion, concurrently
\* Two users have signed up; their requests to create posts and to delete
\* their accounts interleave at the store calls, two requests in flight at a
\* time.
InputsCascade ==
    {In("createPost", h, "", PostBody("t1", "c1", U)) : h \in GoodHeaders}
        \cup {In("deleteProfile", h, "", NoBody) : h \in GoodHeaders}
        \cup {In("getProfile", h, "", NoBody) : h \in GoodHeaders}

NextCascade ==
    \E s \in {1, 2} :
        \/ Arrive(s, InputsCascade)
        \/ Retire(s)
        \/ CreatePostCreate(s)
        \/ GetProfileFind(s)
        \/ DeleteProfileDeleteMany(s)
        \/ DeleteProfileDelete(s)

SpecCascade == InitPosts /\ [][NextCascade]_vars

\* ------------------------------------------- the /users routes and the auth
\* Users are created through POST /auth/signup and through POST /users, and
\* are read through GET /users and POST /auth/login, one request after
\* another.
InputsUsers ==
    {In("signup", NoHeader, "", SignupBody(e, "Ann", "secret1")) : e \in {"a@x.com", "B@X.COM"}}
        \cup {In("postUsers", NoHeader, "", SignupBody(e, " Ann ", "secret2")) : e \in {"A@x.com", "b@x.com"}}
        \cup {In("postUsers", NoHeader, "", SignupBody("b@x.com", "", "secret2"))}
        \cup {In("getUsers", NoHeader, "", NoBody)}
        \cup {In("login", NoHeader, "", LoginBody(e, pw)) : e \in {"A@x.com", "b@x.com"}, pw \in {"secret1", "secret2"}}
        \cup {In("getProfile", h, "", NoBody) : h \in GoodHeaders}
        \cup {In("signup", NoHeader, "", SignupBody("a@x.com", "Ann", Long1))}
        \cup {In("login", NoHeader, "", LoginBody("a@x.com", pw)) : pw \in {Long1, Long2}}

NextUsers ==
    \E s \in {1} :
        \/ Arrive(s, InputsUsers)
        \/ Retire(s)
        \/ SignupFind(s)
        \/ \E salt \in {1, 2} : SignupCreate(s, salt)
        \/ PostUsersFind(s)
        \/ PostUsersCreate(s)
        \/ GetUsersFind(s)
        \/ LoginFind(s)
        \/ GetProfileFind(s)

SpecUsers == Init /\ [][NextUsers]_vars

\* ------------------------------------------------- a token over its lifetime
\* Two users have signed up and hold the tokens issued to them at clock 0;
\* they keep presenting these tokens, one request after another, while time
\* passes, accounts are deleted and emails change.
SessionHeaders == {Bearer(generateToken(u, 0)) : u \in Created}

InputsSession ==
    {In("getProfile", h, "", NoBody) : h \in SessionHeaders}
        \cup {In("putProfile", h, "", ProfileBody("B@X.COM", U)) : h \in SessionHeaders}
        \cup {In("deleteProfile", h, "", NoBody) : h \in SessionHeaders}
        \cup {In("createPost", h, "", PostBody("t1", "c1", "true")) : h \in SessionHeaders}
        \cup {In("getPost", h, p, NoBody) : h \in SessionHeaders, p \in PostIds}
        \cup {In("listPosts", h, "", NoBody) : h \in SessionHeaders}

InitSession ==
    /\ clock = 0
    /\ jwtEnv = "s3cret"
    /\ storeUnique = TRUE
    /\ TwoUsers
    /\ posts = [p \in PostIds |-> NoPostRow]
    /\ nextPostId = 0
    /\ reqs = [s \in Slots |-> Idle]
    /\ NoTokenCalls

NextSession ==
    \/ Tick
    \/ \E s \in {1} :
        \/ Arrive(s, InputsSession)
        \/ Retire(s)
        \/ GetProfileFind(s)
        \/ PutProfileFind(s)
        \/ PutProfileUpdate(s)
        \/ DeleteProfileDeleteMany(s)
        \/ DeleteProfileDelete(s)
        \/ CreatePostCreate(s)
        \/ GetPostFind(s)
        \/ ListPostsFind(s)
        \/ ListPostsCount(s)

SpecSession == InitSession /\ [][NextSession]_vars

\* ------------------------------------------------ profile updates, concurrently
\* Two users have signed up; their requests to update and to delete their
\* profiles interleave at the store calls, two requests in flight at a time.
InputsProfile ==
    {In("putProfile", h, "", ProfileBody(e, n)) :
            h \in GoodHeaders, e \in {U, "A@x.com", "B@X.COM"}, n \in {U, "Bob"}}
        \cup {In("deleteProfile", h, "", NoBody) : h \in GoodHeaders}

NextProfile ==
    \E s \in {1, 2} :
        \/ Arrive(s, InputsProfile)
        \/ Retire(s)
        \/ PutProfileFind(s)
        \/ PutProfileUpdate(s)
        \/ DeleteProfileDeleteMany(s)
        \/ DeleteProfileDelete(s)

SpecProfile == InitPosts /\ [][NextProfile]_vars

\* ------------------------------------------------- identities, concurrently
\* Two requests in flight at once, under the mandatory and the optional
\* middleware, with the headers of two users, no header and a bad token.
InputsIdentity ==
    LET H == GoodHeaders \cup {NoHeader, Bearer(Str("garbage"))}
    IN  {In("createPost", h, "", PostBody("t1", "c1", "true")) : h \in H}
            \cup {In("getPost", h, "p1", NoBody) : h \in H}
            \cup {In("myPosts", h, "", NoBody) : h \in H}

NextIdentity ==
    \E s \in {1, 2} :
        \/ Arrive(s, InputsIdentity)
        \/ Retire(s)
        \/ CreatePostCreate(s)
        \/ GetPostFind(s)
        \/ MyPostsFind(s)
        \/ MyPostsCount(s)

SpecIdentity == InitPosts /\ [][NextIdentity]_vars

\* ------------------------------------------------- emails in any letter case
\* The three routes that write a user's email, with emails in upper, lower
\* and mixed case.
InputsEmails ==
    LET E == {"a@x.com", "A@x.com", "B@X.COM"}
    IN  {In("signup", NoHeader, "", SignupBody(e, "Ann", "secret1")) : e \in E}
            \cup {In("postUsers", NoHeader, "", SignupBody(e, "Ann", "secret1")) : e \in E}
            \cup {In("putProfile", h, "", ProfileBody(e, U)) : h \in GoodHeaders, e \in E}

NextEmails ==
    \E s \in {1} :
        \/ Arrive(s, InputsEmails)
        \/ Retire(s)
        \/ SignupFind(s)
        \/ SignupCreate(s, 1)
        \/ PostUsersFind(s)
        \/ PostUsersCreate(s)
        \/ PutProfileFind(s)
        \/ PutProfileUpdate(s)

SpecEmails == InitSignup /\ [][NextEmails]_vars

\* ------------------------------------------- the checks of PUT and DELETE
\* PUT and DELETE /posts/:id with and without a credential, for posts that
\* exist or not, owned or not, with a valid and an invalid body.
InputsOrder ==
    LET H == GoodHeaders \cup {NoHeader, Bearer(Str("garbage"))}
    IN  {In("createPost", Bearer(generateToken("u1", clock)), "", PostBody("t1", "c1", U))}
            \cup {In("putPost", h, p, b) :
                    h \in H, p \in PostIds, b \in {PostBody("t2", U, "true"), PostBody("", U, U)}}
            \cup {In("deletePost", h, p, NoBody) : h \in H, p \in PostIds}

NextOrder ==
    \E s \in {1, 2} :
        \/ Arrive(s, InputsOrder)
        \/ Retire(s)
        \/ CreatePostCreate(s)
        \/ PutPostFind(s)
        \/ PutPostUpdate(s)
        \/ DeletePostFind(s)
        \/ DeletePostDelete(s)

SpecOrder == InitPosts /\ [][NextOrder]_vars

\* ------------------------------------------------ the header's scheme word
\* Requests whose Authorization header carries a valid token after the scheme
\* word Bearer or after another scheme word, under both middleware.
Basic(t) == Header(<<Str("Basic"), t>>)

InputsScheme ==
    LET H == GoodHeaders \cup {Basic(generateToken(u, clock)) : u \in Created} \cup {NoHeader}
    IN  {In("createPost", h, "", PostBody("t1", "c1", U)) : h \in H}
            \cup {In("getPost", h, p, NoBody) : h \in H, p \in PostIds}
            \cup {In("getProfile", h, "", NoBody) : h \in H}

NextScheme ==
    \E s \in {1, 2} :
        \/ Arrive(s, InputsScheme)
        \/ Retire(s)
        \/ CreatePostCreate(s)
        \/ GetPostFind(s)
        \/ GetProfileFind(s)

SpecScheme == InitPosts /\ [][NextScheme]_vars

\* =================================================================== claims

\* The user a header's token was issued to: the credential a client presents,
\* as the client sees it (a token it was handed and that has not expired).
Requester(h) ==
    IF \E u \in UserIds : h = Bearer(generateToken(u, clock))
    THEN CHOOSE u \in UserIds : h = Bearer(generateToken(u, clock))
    ELSE NoUserId

\* Two email addresses that differ at most in letter case.
CaseGroups == {{"a@x.com", "A@x.com"}, {"b@x.com", "B@X.COM"}}
SameIgnoringCase(a, b) == a = b \/ \E g \in CaseGroups : {a, b} \subseteq g
Holders(email) == {u \in LiveUsers : SameIgnoringCase(users[u].email, email)}

GuardedOps ==
    {"getProfile", "putProfile", "deleteProfile", "myPosts", "createPost", "putPost", "deletePost"}
OptionalOps == {"listPosts", "getPost"}
MutatingOps == {"putPost", "deletePost"}

\* C1: GET /posts/:id, for every requester (anonymous, the author, another
\* user): 404 when no post has the id; the post when it is published or the
\* requester is its author; otherwise 403 and no post content in the response.
C1_GetPostVisibility ==
    [][\A s \in Slots :
        (Running(s, "getPost", "findUnique") /\ reqs'[s].pc = "done") =>
            LET r == reqs'[s]
                id == reqs[s].id
                who == Requester(reqs[s].hdr)
            IN  /\ id \notin LivePosts => r.status = 404 /\ r.data.post = NoPost
                /\ (id \in LivePosts /\ (posts[id].published \/ posts[id].authorId = who)) =>
                        /\ r.status = 200
                        /\ r.data.post.id = id
                        /\ r.data.post.title = posts[id].title
                        /\ r.data.post.content = posts[id].content
                /\ (id \in LivePosts /\ ~posts[id].published /\ posts[id].authorId # who) =>
                        r.status = 403 /\ r.data = NoData]_vars

\* C1 witness: a user other than the author asked for an unpublished post
\* and was answered 403.
C1_Witness ==
    \E s \in Slots :
        /\ reqs[s].op = "getPost" /\ reqs[s].pc = "done" /\ reqs[s].status = 403
        /\ reqs[s].id \in LivePosts /\ ~posts[reqs[s].id].published
        /\ Requester(reqs[s].hdr) \in LiveUsers \ {posts[reqs[s].id].authorId}

\* C2: with requests interleaving, a post is changed or removed only by the
\* step of a PUT or DELETE /posts/:id request of the post's author, answered
\* 200; the PUT or DELETE of any other authenticated user that finds the post
\* is answered 403 and writes nothing.
C2_OnlyOwnerMutates ==
    [][/\ \A p \in PostIds :
            (posts[p].live /\ posts'[p] # posts[p]) =>
                \E s \in Slots :
                    /\ reqs[s].op \in MutatingOps /\ reqs[s].id = p
                    /\ reqs[s].pc # "done" /\ reqs'[s].pc = "done" /\ reqs'[s].status = 200
                    /\ Requester(reqs[s].hdr) = posts[p].authorId
       /\ \A s \in Slots :
            (/\ reqs[s].op \in MutatingOps /\ reqs[s].pc = "findUnique" /\ reqs'[s] # reqs[s]
             /\ reqs[s].id \in LivePosts
             /\ Requester(reqs[s].hdr) # posts[reqs[s].id].authorId) =>
                /\ reqs'[s].pc = "done" /\ reqs'[s].status = 403 /\ reqs'[s].writes = 0
                /\ posts' = posts]_vars

\* C2 witness: a user was answered 403 on another user's post while the
\* author's own PUT or DELETE of that post had passed its check and was about
\* to write.
C2_Witness ==
    \E s, t \in Slots :
        /\ reqs[s].op \in MutatingOps /\ reqs[s].status = 403
        /\ reqs[s].id \in LivePosts
        /\ Requester(reqs[s].hdr) \in LiveUsers \ {posts[reqs[s].id].authorId}
        /\ reqs[t].op \in MutatingOps /\ reqs[t].pc \in {"update", "delete"}
        /\ reqs[t].id = reqs[s].id

\* C3: one request after another, a signup (with a body that passes
\* validation) whose email equals an existing user's email ignoring letter
\* case is answered 409, never reaches the create, leaves the users as they
\* were and returns neither user nor token; a body that fails validation is
\* answered 400 with the same absence of effects.
C3_DuplicateSignupConflict ==
    [][\A s \in Slots :
        LET r == reqs'[s]
        IN  (r.op = "signup" /\ r # reqs[s] /\ Holders(r.body.email) # {}) =>
                /\ users' = users /\ nextUserId' = nextUserId
                /\ r.pc # "create" /\ r.writes = 0
                /\ r.data.token = Undefined /\ r.data.user = NoUser
                /\ r.pc = "done" =>
                        r.status = IF validateUserSignup(r.body).error THEN 400 ELSE 409]_vars

\* C3 witness: a valid signup whose email differs from an existing user's
\* only in letter case was answered 409.
C3_Witness ==
    \E s \in Slots :
        /\ reqs[s].op = "signup" /\ reqs[s].status = 409
        /\ Holders(reqs[s].body.email) # {}
        /\ \A u \in LiveUsers : users[u].email # reqs[s].body.email

\* C4: with signups interleaving, the emails of the users are pairwise
\* different whenever the store enforces the unique index on email.
C4_UniqueIfStoreEnforces ==
    storeUnique =>
        \A u, v \in LiveUsers : u # v => users[u].email # users[v].email

\* C4 witness: over a store that does not enforce the index, two signups for
\* one email both passed the pre-check and both created a user.
C4_Witness ==
    /\ ~storeUnique
    /\ \E u, v \in LiveUsers : u # v /\ users[u].email = users[v].email

\* C5: on every route guarded by authenticateToken, a request with no
\* Authorization header, or with a header that has no token part, is answered
\* 401; next() is not called, no userId is attached and the store is neither
\* read nor written for it.
C5_MissingTokenRejected ==
    \A s \in Slots :
        LET r == reqs[s]
        IN  (r.op \in GuardedOps /\ r.hdr \in NoTokenHeaders) =>
                /\ r.pc = "done" /\ r.status = 401 /\ r.error = "Access token required"
                /\ r.next = 0 /\ r.userId = NoUserId
                /\ r.reads = 0 /\ r.writes = 0 /\ r.data = NoData

\* C5 witness: a DELETE of an existing post sent with a scheme word and no
\* token was answered 401.
C5_Witness ==
    \E s \in Slots :
        /\ reqs[s].op = "deletePost" /\ reqs[s].hdr = Header(<<Str("Bearer")>>)
        /\ reqs[s].id \in LivePosts /\ reqs[s].status = 401

\* C6 as the specification states it: a token that is malformed, carries a
\* bad signature or has expired is answered 401 by authenticateToken, without
\* next() and without store access.
C6_InvalidTokenIs401 ==
    \A s \in Slots :
        LET r == reqs[s]
        IN  (r.op \in GuardedOps /\ r.hdr \in InvalidTokenHeaders) =>
                /\ r.pc = "done" /\ r.status = 401
                /\ r.next = 0 /\ r.reads = 0 /\ r.writes = 0

\* C6 witness: a guarded request carrying a token that does not verify was
\* answered 403 "Invalid or expired token".
C6_Witness ==
    \E s \in Slots :
        /\ reqs[s].op \in GuardedOps /\ reqs[s].hdr \in InvalidTokenHeaders
        /\ reqs[s].status = 403 /\ reqs[s].error = "Invalid or expired token"
        /\ reqs[s].next = 0 /\ reqs[s].reads = 0 /\ reqs[s].writes = 0

\* C7: optionalAuth never answers the request itself and calls next() once;
\* the userId it attaches is the token's user exactly when the token
\* verifies, and none for a missing header, a header without token part and
\* a malformed, forged or expired token.
C7_OptionalAuthNeverRejects ==
    \A s \in Slots :
        LET r == reqs[s]
        IN  r.op \in OptionalOps =>
                /\ r.next = 1
                /\ r.error \notin {"Access token required", "Invalid or expired token"}
                /\ r.status # 401
                /\ r.hdr \in BadHeaders => r.userId = NoUserId
                /\ r.userId = Requester(r.hdr)

\* C7 witness: a GET of a published post sent with a token that is no JWT
\* was served as an anonymous request.
C7_Witness ==
    \E s \in Slots :
        /\ reqs[s].op = "getPost" /\ reqs[s].hdr = Bearer(Str("garbage"))
        /\ reqs[s].status = 200 /\ reqs[s].userId = NoUserId

\* C8: for every user id u, verifyToken(generateToken(u)) returns u at every
\* clock value strictly before issue time + 7 days and null at every clock
\* value after issue time + 7 days; the string verified is the one that was
\* generated, whatever the clock.
C8_ValidUntilExpiry ==
    (out.called /\ out.made.kind = "generated") =>
        /\ out.token = generateToken(out.made.userId, out.made.at)
        /\ out.now < out.made.at + ExpiresIn =>
                out.result.kind = "payload" /\ out.result.userId = out.made.userId
        /\ out.now > out.made.at + ExpiresIn => out.result = Null

\* C8 witness: a generated token verified after its expiry, found invalid.
C8_Witness ==
    /\ out.called /\ out.made.kind = "generated"
    /\ out.now > out.made.at + ExpiresIn
    /\ out.result = Null

\* C9: verifyToken returns a user id only for a string generateToken produced
\* under the same signing key, unmodified and unexpired, and that id is the
\* token's subject; for a malformed string, a token with one character
\* changed, a token signed with another key and an expired token it returns
\* null; no call ends in an exception.
C9_OnlyGenuineTokens ==
    out.called =>
        /\ out.result.kind \in {"payload", "null"}
        /\ out.result.kind = "payload" =>
                /\ out.made.kind = "generated"
                /\ out.token = generateToken(out.made.userId, out.made.at)
                /\ out.now < out.token.exp
                /\ out.result.userId = out.made.userId
        /\ out.made.kind \in {"tampered", "forged", "malformed"} => out.result = Null
        /\ (out.made.kind = "generated" /\ out.now >= out.token.exp) => out.result = Null

\* C9 witness: an unexpired token with one character changed, found invalid.
C9_Witness ==
    /\ out.called /\ out.made.kind = "tampered"
    /\ out.now < out.made.at + ExpiresIn
    /\ out.result = Null

Admitted(u) == [status |-> 0, error |-> "", next |-> 1, userId |-> u]

\* C11: the token in a successful signup or login response, presented as a
\* bearer token to any route guarded by authenticateToken at any time before
\* its expiry, is admitted with exactly the id of the user created or logged
\* in; signup's user is the row it created, login's user holds the email
\* given (in any letter case) and the password given; and a login with the
\* email of a user in any letter case and that user's password succeeds.
C11_TokenBindsUser ==
    [][\A s \in Slots :
        LET r == reqs'[s]
            id == r.data.user.id
        IN  (r # reqs[s] /\ r.op \in {"signup", "login"} /\ r.pc = "done") =>
                /\ r.status \in {200, 201} =>
                        /\ r.data.token # Undefined
                        /\ users'[id].live
                        /\ SameIgnoringCase(users'[id].email, r.body.email)
                        /\ users'[id].password.digest[2] = r.body.password
                        /\ r.op = "signup" => ~users[id].live /\ r.status = 201
                        /\ r.op = "login" => users[id] = users'[id] /\ r.status = 200
                        /\ \A op \in GuardedOps, now \in clock..(clock + ExpiresIn - 1) :
                                RunGuard(op, Bearer(r.data.token), now) = Admitted(id)
                /\ (/\ r.op = "login"
                    /\ \E u \in Holders(r.body.email) : users[u].password.digest[2] = r.body.password) =>
                        r.status = 200]_vars

\* C11 witness: a login with the registered email in another letter case
\* succeeded, and the token it returned is admitted on a guarded route as
\* that user.
C11_Witness ==
    \E s \in Slots :
        /\ reqs[s].op = "login" /\ reqs[s].status = 200
        /\ reqs[s].data.token # Undefined
        /\ reqs[s].data.user.id \in LiveUsers
        /\ users[reqs[s].data.user.id].email # reqs[s].body.email
        /\ RunGuard("getProfile", Bearer(reqs[s].data.token), clock) = Admitted(reqs[s].data.user.id)

\* C12: a post's authorId is, at creation, the id of the user whose token the
\* creating request carried, and in every later step of any request of any
\* user it stays what it was for as long as the post exists.
C12_AuthorImmutable ==
    [][\A p \in PostIds :
        /\ (posts[p].live /\ posts'[p].live) => posts'[p].authorId = posts[p].authorId
        /\ (~posts[p].live /\ posts'[p].live) =>
                \E s \in Slots :
                    /\ Running(s, "createPost", "create") /\ reqs'[s].status = 201
                    /\ Requester(reqs[s].hdr) \in LiveUsers
                    /\ posts'[p].authorId = Requester(reqs[s].hdr)]_vars

\* C12 witness: a post that its author has updated, the author having also
\* changed name and email, still carries the author's id.
C12_Witness ==
    \E p \in LivePosts :
        /\ posts[p].published
        /\ posts[p].authorId \in LiveUsers
        /\ users[posts[p].authorId].name = "Bob"
        /\ users[posts[p].authorId].email = "b@x.com"

\* The user a header's token was issued to, at whatever time; none for a
\* header that carries no issued token.
IssuedTo(h) ==
    IF \E u \in UserIds, t \in 0..MaxClock : h = Bearer(generateToken(u, t))
    THEN (CHOOSE w \in UserIds \X (0..MaxClock) : h = Bearer(generateToken(w[1], w[2])))[1]
    ELSE NoUserId

\* C13: the published flag of an existing post changes only in the update
\* step of a PUT /posts/:id that carries the token of the post's author and
\* a published value, and it becomes that value; every other step (reads,
\* requests of other users, the author's updates of title or content only,
\* the clock advancing) leaves it as it was.
C13_PublishedOnlyByAuthorPut ==
    [][\A p \in PostIds :
        (posts[p].live /\ posts'[p].live /\ posts'[p].published # posts[p].published) =>
            \E s \in Slots :
                /\ Running(s, "putPost", "update") /\ reqs[s].id = p
                /\ reqs'[s].pc = "done" /\ reqs'[s].status = 200
                /\ IssuedTo(reqs[s].hdr) = posts[p].authorId
                /\ reqs[s].body.published \in {"true", "false"}
                /\ posts'[p].published = (reqs[s].body.published = "true")]_vars

\* C13 witness: the author has just set published back to false on a post
\* that was published by an earlier PUT (the one that set its title) and whose
\* content an update without published value had changed.
C13_Witness ==
    \E s \in Slots :
        /\ reqs[s].op = "putPost" /\ reqs[s].status = 200
        /\ reqs[s].body.published = "false"
        /\ reqs[s].id \in LivePosts
        /\ posts[reqs[s].id].title = "t2" /\ posts[reqs[s].id].content = "c2"
        /\ ~posts[reqs[s].id].published

\* C14: at every time in a post's life, GET /posts/:id follows the flag the
\* post has at that time: a different user or an anonymous client is answered
\* 403 while the post is unpublished and gets the post while it is published,
\* however often the flag has changed before; the author gets the post always.
C14_VisibilityFollowsFlag ==
    [][\A s \in Slots :
        (Running(s, "getPost", "findUnique") /\ reqs'[s] # reqs[s] /\ reqs[s].id \in LivePosts) =>
            LET p == reqs[s].id
                who == IssuedTo(reqs[s].hdr)
                r == reqs'[s]
            IN  /\ r.pc = "done"
                /\ who = posts[p].authorId => r.status = 200
                /\ (who # posts[p].authorId /\ posts[p].published) => r.status = 200
                /\ (who # posts[p].authorId /\ ~posts[p].published) =>
                        r.status = 403 /\ r.error = "Access denied"
                /\ r.status = 200 =>
                        /\ r.data.post.id = p
                        /\ r.data.post.published = posts[p].published
                        /\ r.data.post.title = posts[p].title]_vars

\* C14 witness: user B is answered 403 on a post of user A that A had
\* created unpublished, then published (the PUT that set its title), then set
\* back to unpublished.
C14_Witness ==
    \E s \in Slots :
        /\ reqs[s].op = "getPost" /\ reqs[s].status = 403
        /\ reqs[s].id \in LivePosts
        /\ IssuedTo(reqs[s].hdr) \in LiveUsers \ {posts[reqs[s].id].authorId}
        /\ posts[reqs[s].id].title = "t2"
        /\ ~posts[reqs[s].id].published

\* C15: DELETE /auth/profile first removes every post whose authorId is the
\* requester and no other post, then removes the requester and no other
\* user; when it is answered 200 the requester and all the requester's posts
\* are gone; a user is removed only this way, after the user's posts.
C15_DeleteProfileCascade ==
    [][/\ \A s \in Slots :
            LET uid == IssuedTo(reqs[s].hdr)
            IN  /\ (Running(s, "deleteProfile", "deleteMany") /\ reqs'[s] # reqs[s]) =>
                    /\ reqs'[s].pc = "delete"
                    /\ users' = users
                    /\ \A p \in PostIds :
                            posts'[p] = IF posts[p].live /\ posts[p].authorId = uid
                                        THEN NoPostRow ELSE posts[p]
                /\ (Running(s, "deleteProfile", "delete") /\ reqs'[s].status = 200) =>
                    /\ posts' = posts
                    /\ ~users'[uid].live
                    /\ \A u \in UserIds \ {uid} : users'[u] = users[u]
                    /\ \A p \in PostIds : posts'[p].live => posts'[p].authorId # uid
                /\ (Running(s, "deleteProfile", "delete") /\ reqs'[s].status \notin {0, 200}) =>
                    users' = users /\ posts' = posts
       /\ \A u \in UserIds :
            (users[u].live /\ ~users'[u].live) =>
                /\ \A p \in PostIds : posts[p].live => posts[p].authorId # u
                /\ \E s \in Slots :
                        /\ Running(s, "deleteProfile", "delete") /\ IssuedTo(reqs[s].hdr) = u
                        /\ reqs[s].writes = 1 /\ reqs'[s].status = 200]_vars

\* C15 witness: a user whose POST /posts had been answered 201 deleted the
\* account; that post is gone while a post of the other user is still there.
C15_Witness ==
    \E s, t \in Slots :
        /\ reqs[s].op = "deleteProfile" /\ reqs[s].status = 200
        /\ reqs[t].op = "createPost" /\ reqs[t].status = 201
        /\ IssuedTo(reqs[t].hdr) = IssuedTo(reqs[s].hdr)
        /\ IssuedTo(reqs[s].hdr) \notin LiveUsers
        /\ reqs[t].data.post.id \notin LivePosts
        /\ \E p \in LivePosts : posts[p].authorId \in LiveUsers

\* The password verifiers the store holds.
StoredVerifiers == {users[u].password : u \in LiveUsers} \ {NoVerifier}

\* The user records a response carries: its user, the author embedded in its
\* post and in each of its posts, and its list of users.
UsersIn(data) ==
    {data.user.password, data.post.author.password}
        \cup {p.author.password : p \in data.posts}
        \cup {u.password : u \in data.users}

\* C16 as the specification states it: no response of any endpoint, GET
\* /users and POST /users included, contains a stored password verifier.
C16_NoVerifierInResponses ==
    \A s \in Slots : UsersIn(reqs[s].data) \cap StoredVerifiers = {}

\* C16 witness: the response of GET /users carries the password verifier
\* stored for a user that signed up.
C16_Witness ==
    \E s \in Slots :
        /\ reqs[s].op = "getUsers" /\ reqs[s].status = 200
        /\ \E u \in LiveUsers, v \in reqs[s].data.users :
                v.id = u /\ v.password = users[u].password /\ v.password # NoVerifier

\* process.env.NODE_ENV: the context the process runs in.  Nothing that signs
\* or verifies a token reads it, so every behaviour of the token service
\* occurs in each context alike.
NodeEnvs == {"production", "development", "test"}

\* C17 as the specification states it: in a production context with
\* JWT_SECRET absent no token is issued and none is verified (the process
\* has failed at startup), and a token signed with the fallback key exists
\* only in a non-production context.
C17_FailFastInProduction ==
    \A nodeEnv \in NodeEnvs :
        /\ (nodeEnv = "production" /\ jwtEnv = "") => (made.kind # "generated" /\ ~out.called)
        /\ (made.kind = "generated" /\ tok.sig.key = "your-secret-key") => nodeEnv # "production"

\* C17 witness: with JWT_SECRET absent a token was issued under the fallback
\* key and verifyToken accepted it.
C17_Witness ==
    /\ jwtEnv = ""
    /\ out.called /\ out.made.kind = "generated"
    /\ out.token.sig.key = "your-secret-key"
    /\ out.result.kind = "payload"

\* C18: a request that presents a token issued at clock 0 is, at every clock
\* value before the token's expiry, passed on by authenticateToken and by
\* optionalAuth with the token's user id attached, whether or not that user
\* still exists and whatever its email now is; the middleware reads nothing
\* from the store.  From the expiry on authenticateToken rejects it and
\* optionalAuth passes the request on without a user id.
C18_NoRevocation ==
    [][\A s \in Slots :
        (reqs[s] = Idle /\ reqs'[s] # Idle) =>
            LET r == reqs'[s]
                u == IssuedTo(r.hdr)
            IN  /\ r.hdr \in SessionHeaders
                /\ r.reads = 0 /\ r.writes = 0
                /\ clock < ExpiresIn => r.next = 1 /\ r.userId = u /\ r.status = 0
                /\ (clock >= ExpiresIn /\ r.op \in GuardedOps) => r.next = 0 /\ r.status = 403
                /\ (clock >= ExpiresIn /\ r.op \in OptionalOps) =>
                        r.next = 1 /\ r.userId = NoUserId]_vars

\* C18 witness: some time after issue, the token of a user whose account has
\* been deleted was accepted by authenticateToken and the handler ran (it
\* answered 404 for the profile it did not find).
C18_Witness ==
    \E s \in Slots :
        /\ reqs[s].op = "getProfile" /\ reqs[s].next = 1
        /\ reqs[s].userId = IssuedTo(reqs[s].hdr)
        /\ reqs[s].userId \in Created \ LiveUsers
        /\ reqs[s].status = 404 /\ reqs[s].reads = 1
        /\ clock > 0

\* The lowercase spellings of the email addresses.
Lowercase == {"a@x.com", "b@x.com"}

\* C19: PUT /auth/profile changes no user record but the requester's, and of
\* that only the fields the body supplies (name as given, email lowercased);
\* when the requested email is held, ignoring case, by a different user it
\* answers 409 and changes nothing, and when it is held by nobody else (the
\* requester's own current email included) the request goes on to the update.
C19_ProfileUpdateFrame ==
    [][/\ \A s \in Slots :
            LET uid == IssuedTo(reqs[s].hdr)
                b == reqs[s].body
                r == reqs'[s]
            IN  /\ (Running(s, "putProfile", "findUnique") /\ r # reqs[s]) =>
                    /\ users' = users
                    /\ Holders(b.email) \ {uid} # {} =>
                            r.pc = "done" /\ r.status = 409 /\ r.writes = 0
                    /\ Holders(b.email) \ {uid} = {} => r.pc = "update"
                /\ (Running(s, "putProfile", "update") /\ r # reqs[s]) =>
                    /\ posts' = posts
                    /\ \A u \in UserIds \ {uid} : users'[u] = users[u]
                    /\ r.status # 200 => users' = users
                    /\ (users[uid].live /\ Holders(b.email) \ {uid} = {}) => r.status = 200
                    /\ r.status = 200 =>
                            /\ users'[uid].live /\ users'[uid].password = users[uid].password
                            /\ users'[uid].name = IF b.name = U THEN users[uid].name ELSE b.name
                            /\ b.email = U => users'[uid].email = users[uid].email
                            /\ b.email # U =>
                                    /\ users'[uid].email \in Lowercase
                                    /\ SameIgnoringCase(users'[uid].email, b.email)
       /\ \A u \in UserIds :
            (users[u].live /\ users'[u].live /\ users'[u] # users[u]) =>
                \E s \in Slots :
                    Running(s, "putProfile", "update") /\ IssuedTo(reqs[s].hdr) = u]_vars

\* C19 witness: a user asked for the own current email in another letter
\* case, with no name, and was answered 200; the other user's record and the
\* requester's name are as they were at sign-up.
C19_Witness ==
    \E s \in Slots :
        LET uid == IssuedTo(reqs[s].hdr)
        IN  /\ reqs[s].op = "putProfile" /\ reqs[s].status = 200
            /\ reqs[s].body.email = "A@x.com" /\ reqs[s].body.name = U
            /\ uid = "u1" /\ users[uid].email = "a@x.com" /\ users[uid].name = "Ann"
            /\ users["u2"] = UserRow("b@x.com", "Bob", BcryptHash("secret2", 1))

\* C20: the posts GET /posts returns are exactly the posts that exist and are
\* published when findMany reads them, restricted to the author named by the
\* authorId query when one is given, whoever asks (anonymous, or a user with
\* drafts of their own); the response sent after the count carries these
\* posts unchanged.
C20_ListOnlyPublished ==
    [][\A s \in Slots :
        LET r == reqs'[s]
            a == reqs[s].id
        IN  /\ (Running(s, "listPosts", "findMany") /\ r # reqs[s]) =>
                /\ {v.id : v \in r.data.posts} =
                        {p \in PostIds : posts[p].live /\ posts[p].published
                                            /\ (a # "" => posts[p].authorId = a)}
                /\ \A v \in r.data.posts :
                        /\ v.published
                        /\ v.title = posts[v.id].title /\ v.content = posts[v.id].content
                        /\ v.authorId = posts[v.id].authorId
            /\ (Running(s, "listPosts", "count") /\ r # reqs[s]) =>
                /\ r.pc = "done" /\ r.status = 200
                /\ r.data.posts = reqs[s].data.posts]_vars

\* C20 witness: a user who has an unpublished post listed the posts and got
\* the published ones, without the draft.
C20_Witness ==
    \E s \in Slots :
        /\ reqs[s].op = "listPosts" /\ reqs[s].status = 200
        /\ reqs[s].data.posts # {}
        /\ \E p \in LivePosts :
                /\ ~posts[p].published
                /\ posts[p].authorId = IssuedTo(reqs[s].hdr)
                /\ \A v \in reqs[s].data.posts : v.id # p

\* Passwords a client may try.
Passwords == {"secret1", "secret2", "secret", "abc", "", Long1, Long2}

\* C21 as the specification states it: whatever salt hashPassword drew for
\* the password p of a signup, the verifier it stored verifies p and
\* verifies no other password.
C21_HashVerifyRoundTrip ==
    [][\A s \in Slots :
        (Running(s, "signup", "create") /\ reqs'[s].status = 201) =>
            LET p == reqs[s].body.password
                v == users'[reqs'[s].data.user.id].password
            IN  /\ v # NoVerifier
                /\ p \in Passwords
                /\ \A q \in Passwords : BcryptCompare(q, v) = (q = p)]_vars

\* C21 witness: a login was answered 200 for a password that no signup ever
\* gave: the one of the sign-up with its 73rd character changed.
C21_Witness ==
    \E s \in Slots :
        /\ reqs[s].op = "login" /\ reqs[s].status = 200
        /\ reqs[s].body.password = Long2
        /\ reqs[s].data.token # Undefined


\* C22: with requests in flight concurrently, the userId of every request is
\* the one the route's middleware resolves from that request's own header
\* (or absent); the arrival of a request changes nothing of any other request
\* and nothing outside the request; and the author of a created post is the
\* identity resolved from the creating request's header.
C22_IdentityPerRequest ==
    [][\A s \in Slots :
        /\ reqs'[s] # Idle =>
                reqs'[s].userId = RunGuard(reqs'[s].op, reqs'[s].hdr, clock).userId
        /\ (reqs[s] = Idle /\ reqs'[s] # Idle) =>
                /\ \A t \in Slots \ {s} : reqs'[t] = reqs[t]
                /\ UNCHANGED <<clock, jwtEnv, storeUnique, storeVars, tokenVars>>
        /\ (Running(s, "createPost", "create") /\ reqs'[s].status = 201) =>
                posts'[reqs'[s].data.post.id].authorId = Requester(reqs[s].hdr)]_vars

\* C22 witness: two requests in flight with different identities, one of them
\* anonymous under the optional middleware while the other has written as u1.
C22_Witness ==
    \E s, t \in Slots :
        /\ reqs[s].op = "createPost" /\ reqs[s].status = 201 /\ reqs[s].userId = "u1"
        /\ reqs[t].op = "getPost" /\ reqs[t].pc = "findUnique" /\ reqs[t].userId = NoUserId
        /\ \E p \in LivePosts : posts[p].authorId = "u1"


\* C23: in every reachable state every stored user's email is in lowercase
\* form, whatever the letter case of the emails that POST /auth/signup,
\* POST /users and PUT /auth/profile were given.
C23_StoredEmailsLowercase == \A u \in LiveUsers : users[u].email \in Lowercase

\* C23 witness: a user created by POST /users and a user whose profile update
\* was answered 200 for an email given in upper case are both stored, each
\* under the lowercase spelling.
C23_Witness ==
    /\ \E u \in LiveUsers : users[u].password = NoVerifier /\ users[u].email = "a@x.com"
    /\ \E s \in Slots :
            /\ reqs[s].op = "putProfile" /\ reqs[s].status = 200
            /\ reqs[s].body.email = "B@X.COM"
            /\ users[reqs[s].userId].email = "b@x.com"


\* C24: within one PUT or DELETE /posts/:id request the checks run in the
\* order authentication, existence, ownership, (PUT) body validation, write.
\* A request without a valid credential is answered 401 or 403 with no store
\* read; at the read, a missing post gives 404 and a post of another author
\* 403 whatever the body, an invalid body gives 400 only for the owner of an
\* existing post; and only a request that passed every check writes.
C24_CheckOrder ==
    [][\A s \in Slots :
        LET r == reqs[s]
            q == reqs'[s]
            invalid == q.op = "putPost" /\ validatePostUpdate(q.body).error
        IN  /\ (r = Idle /\ q.op \in {"putPost", "deletePost"}) =>
                    /\ q.reads = 0 /\ q.writes = 0
                    /\ IF Requester(q.hdr) = NoUserId
                       THEN q.pc = "done" /\ q.status \in {401, 403}
                       ELSE q.pc = "findUnique" /\ q.userId = Requester(q.hdr)
            /\ (r.op \in {"putPost", "deletePost"} /\ r.pc = "findUnique" /\ q # r /\ q # Idle) =>
                    /\ q.reads = 1 /\ q.writes = 0 /\ UNCHANGED storeVars
                    /\ IF r.id \notin LivePosts THEN q.pc = "done" /\ q.status = 404
                       ELSE IF posts[r.id].authorId # r.userId THEN q.pc = "done" /\ q.status = 403
                       ELSE IF invalid THEN q.pc = "done" /\ q.status = 400
                       ELSE q.pc = (IF r.op = "putPost" THEN "update" ELSE "delete")
            /\ (r.op \in {"putPost", "deletePost"} /\ q.op = r.op /\ q.writes # r.writes) =>
                    /\ r.pc \in {"update", "delete"} /\ r.reads = 1 /\ r.writes = 0
                    /\ r.userId # NoUserId /\ ~invalid
            /\ (posts' # posts /\ nextPostId' = nextPostId) =>
                    \E t \in Slots : reqs[t].pc \in {"update", "delete"} /\ reqs'[t].writes = 1]_vars

\* C24 witness: a PUT with an invalid body for another author's post was
\* answered 403 after one store read, and a PUT with an invalid body for a
\* missing post was answered 404.
C24_Witness ==
    \E s, t \in Slots :
        /\ reqs[s].op = "putPost" /\ validatePostUpdate(reqs[s].body).error
        /\ reqs[s].status = 403 /\ reqs[s].reads = 1 /\ reqs[s].id \in LivePosts
        /\ reqs[t].op = "putPost" /\ validatePostUpdate(reqs[t].body).error
        /\ reqs[t].status = 404 /\ reqs[t].reads = 1 /\ reqs[t].id \notin LivePosts


\* C25 as the specification states it: a request whose Authorization header
\* has another scheme word than Bearer has no identity attached, and is
\* answered 401 by the mandatory middleware.
C25_OnlyBearerAttaches ==
    \A s \in Slots :
        (reqs[s] # Idle /\ reqs[s].hdr.present /\ reqs[s].hdr.parts[1] # Str("Bearer")) =>
            /\ reqs[s].userId = NoUserId
            /\ Guard(reqs[s].op) = "authenticateToken" => reqs[s].status = 401

\* C25 witness: POST /posts with the header `Basic <token of u1>` was answered
\* 201 and the post is stored with u1 as its author, while a GET /posts/:id
\* with such a header is in flight as u2.
C25_Witness ==
    \E s, t \in Slots :
        /\ reqs[s].op = "createPost" /\ reqs[s].status = 201
        /\ reqs[s].hdr = Basic(generateToken("u1", clock))
        /\ posts[reqs[s].data.post.id].authorId = "u1"
        /\ reqs[t].op = "getPost" /\ reqs[t].hdr = Basic(generateToken("u2", clock))
        /\ reqs[t].userId = "u2"


\* C26: over a store that enforces the unique index, signups for one email
\* that run concurrently create one user and one of them is answered 201 with
\* a token.  A signup whose pre-check reads after a create for its email has
\* committed is answered 409; one whose pre-check read before it, and whose
\* own create then meets the committed row, is answered 500 'Failed to create
\* user'; neither of these carries a token or changes the store.
C26_ConcurrentSignupOneWinner ==
    [][storeUnique =>
        /\ \A e \in Lowercase : Cardinality({u \in UserIds : users'[u].live /\ users'[u].email = e}) <= 1
        /\ \A s, t \in Slots :
                (/\ s # t
                 /\ reqs'[s].op = "signup" /\ reqs'[t].op = "signup"
                 /\ toLowerCase(reqs'[s].body.email) = toLowerCase(reqs'[t].body.email)
                 /\ reqs'[s].status = 201) => reqs'[t].status # 201
        /\ \A s \in Slots :
                LET r == reqs[s]
                    q == reqs'[s]
                    held == UsersByEmail(toLowerCase(r.body.email)) # {}
                IN  /\ (Running(s, "signup", "findUnique") /\ q # r) =>
                            /\ UNCHANGED storeVars
                            /\ q.data.token = Undefined
                            /\ IF held THEN q.pc = "done" /\ q.status = 409
                               ELSE q.pc = "create" /\ q.status = 0
                    /\ (Running(s, "signup", "create") /\ q # r) =>
                            IF held
                            THEN /\ q.status = 500 /\ q.error = "Failed to create user"
                                 /\ q.data.token = Undefined
                                 /\ UNCHANGED storeVars
                            ELSE /\ q.status = 201 /\ q.data.token # Undefined
                                 /\ Cardinality({u \in UserIds : users'[u].live}) =
                                        Cardinality(LiveUsers) + 1
                                 /\ users'[q.data.user.id].email = toLowerCase(r.body.email)]_vars

\* C26 witness: over the enforcing store two signups for one email (in
\* different letter case) both passed the pre-check; one was answered 201 with
\* a token, the other 500 without, and one user holds the email.
C26_Witness ==
    /\ storeUnique
    /\ \E s, t \in Slots :
        /\ reqs[s].op = "signup" /\ reqs[s].status = 201 /\ reqs[s].data.token # Undefined
        /\ reqs[t].op = "signup" /\ reqs[t].status = 500 /\ reqs[t].data.token = Undefined
        /\ reqs[t].error = "Failed to create user"
        /\ reqs[s].body.email # reqs[t].body.email
        /\ Cardinality(UsersByEmail("a@x.com")) = 1
        /\ Cardinality(LiveUsers) = 1


\* The first half of C27: every stored post's author is a stored user.
AuthorsExist == \A p \in LivePosts : posts[p].authorId \in LiveUsers

\* C27 as the specification states it: every stored post's author is a stored
\* user, and a DELETE /auth/profile that was answered 500 has removed none of
\* the requester's posts.
C27_DeleteAllOrNothing ==
    /\ AuthorsExist
    /\ \A s \in Slots :
            (reqs[s].op = "deleteProfile" /\ reqs[s].status = 500) => reqs[s].count = 0

\* C27 witness: a DELETE /auth/profile of u1 removed a post in its deleteMany
\* and was then answered 500, because a POST /posts of u1 created a post
\* between the two store calls; u1 and the new post are stored, the old post
\* is gone.
C27_Witness ==
    \E s, t \in Slots :
        /\ reqs[s].op = "deleteProfile" /\ reqs[s].status = 500 /\ reqs[s].userId = "u1"
        /\ reqs[s].count = 1 /\ reqs[s].writes = 2
        /\ reqs[t].op = "createPost" /\ reqs[t].status = 201 /\ reqs[t].userId = "u1"
        /\ "u1" \in LiveUsers
        /\ ~posts["p1"].live /\ posts["p2"].live /\ posts["p2"].authorId = "u1"

====
